---------------------------- MODULE Spec2Model ----------------------------
(***************************************************************************)
(* Model of the Ghost newsletter subscription script (ghost-subscribe.js,  *)
(* the version with sessionStorage / localStorage flags and timed          *)
(* messages).  One page view of one browser is modelled: the two storage   *)
(* areas, the 'hidden' class of the five DOM elements the script touches,  *)
(* the pending setTimeout callbacks, and the asynchronous invocations of   *)
(* subscribeToGhost, each suspended at one of its four awaits.             *)
(***************************************************************************)
EXTENDS Integers, Sequences, FiniteSets, TLC

(***************************************************************************)
(* Bounds of the model.                                                    *)
(***************************************************************************)
\* number of invocations of subscribeToGhost that may overlap
MaxInvocations == 2
\* number of setTimeout callbacks that may be pending at once
MaxTimers == 2

(***************************************************************************)
(* Program constants.                                                      *)
(***************************************************************************)
NEWSLETTER_SESSION_KEY == "newsletter_subscribed_session"
NEWSLETTER_NEVER_SHOW_KEY == "newsletter_never_show"
MESSAGE_DISPLAY_DURATION == 5000

INVALID_EMAIL_TEXT == "Please enter a valid email address"
INVALID_EMAIL_ERROR == "Invalid email address"
SUCCESS_MESSAGE == "Success! Please check your email to confirm your subscription."
FALLBACK_MESSAGE == "Subscription failed. Please try again."
NETWORK_ERROR_MESSAGE == "Network error. Please check your connection and try again."

(***************************************************************************)
(* Inputs.  An email is a sequence of characters.  A fetch either fails at *)
(* the transport level (Transport) or answers with a status.               *)
(***************************************************************************)
Emails == { <<>>, <<"a">>, <<"a", "@", "b">> }
Tokens == { "tok_abc123", "tok_def456" }
Transport == 0
TokenOutcomes == { Transport, 200, 404 }
PostOutcomes == { Transport, 200, 201, 400 }

\* JavaScript's undefined, for a field that is absent
Undefined == "<undefined>"
\* Parsed JSON values of an error body: null, or an object with an errors
\* list whose entries carry a message, or no message (Undefined).
JsonNull == [type |-> "null", errors |-> <<>>]
JsonObject(errs) == [type |-> "object", errors |-> errs]
Messages == { "Member already exists", "", Undefined }
\* What reading the body of a response can yield: a parse failure, or a value.
ParseFailure == [type |-> "unparseable", errors |-> <<>>]
Bodies == { ParseFailure, JsonNull, JsonObject(<<>>) }
            \cup { JsonObject(<<[message |-> m]>>) : m \in Messages }

Invocations == 1..MaxInvocations
Elements == { "wrapper", "form", "sent", "error", "dismiss" }

VARIABLES
    storageAvailable, \* FALSE when the host disables storage: every access throws
    sessionStorage,   \* sessionStorage: key -> value, Undefined when absent
    localStorage,     \* localStorage:   key -> value, Undefined when absent
    hidden,           \* element -> whether its classList holds 'hidden'
    errorText,        \* textContent of the error element's paragraph
    timers,           \* pending setTimeout callbacks, in the order they fire
    inv,              \* the invocations of subscribeToGhost that have not returned
    returned,         \* what subscribeToGhost returned last, and the requests
                      \* that invocation had issued
    faults            \* the operations that ended in an uncaught exception

vars == << storageAvailable, sessionStorage, localStorage, hidden, errorText,
           timers, inv, returned, faults >>

StorageKeys == { NEWSLETTER_SESSION_KEY, NEWSLETTER_NEVER_SHOW_KEY }
EmptyStorage == [k \in StorageKeys |-> Undefined]

(***************************************************************************)
(* Persistence: the flags.                                                 *)
(***************************************************************************)
getItem(storage, key) == storage[key]
setItem(storage, key, value) == [storage EXCEPT ![key] = value]
removeItem(storage, key) == [storage EXCEPT ![key] = Undefined]

hasSubscribedThisSessionIn(session) ==
    getItem(session, NEWSLETTER_SESSION_KEY) = "true"

\* variant: the flag is written under the other key
markSubscribedThisSession_OtherKey(session) ==
    setItem(session, NEWSLETTER_NEVER_SHOW_KEY, "true")

markSubscribedThisSession(session) ==
    setItem(session, NEWSLETTER_SESSION_KEY, "true")

\* variant: the flag is compared with another value than the one written
hasUserDismissedPermanentlyIn_WrongValue(local) ==
    getItem(local, NEWSLETTER_NEVER_SHOW_KEY) = "1"

hasUserDismissedPermanentlyIn(local) ==
    getItem(local, NEWSLETTER_NEVER_SHOW_KEY) = "true"

clearDismissal(local) ==
    removeItem(local, NEWSLETTER_NEVER_SHOW_KEY)

clearSessionSubscription(session) ==
    removeItem(session, NEWSLETTER_SESSION_KEY)

\* variant: || in place of &&
shouldShowFormIn_Either(session, local) ==
    ~hasSubscribedThisSessionIn(session) \/ ~hasUserDismissedPermanentlyIn(local)

shouldShowFormIn(session, local) ==
    ~hasSubscribedThisSessionIn(session) /\ ~hasUserDismissedPermanentlyIn(local)

hasSubscribedThisSession == hasSubscribedThisSessionIn(sessionStorage)
hasUserDismissedPermanently == hasUserDismissedPermanentlyIn(localStorage)
shouldShowForm == shouldShowFormIn(sessionStorage, localStorage)

(***************************************************************************)
(* The DOM: the host page's markup and the class toggles.                  *)
(***************************************************************************)
\* the markup as the host page delivers it: the form and the dismiss link
\* are visible, the two messages carry 'hidden'
InitialHidden ==
    [e \in Elements |-> e \in {"sent", "error"}]

addHidden(h, e) == [h EXCEPT ![e] = TRUE]
removeHidden(h, e) == [h EXCEPT ![e] = FALSE]

hideNewsletterWrapper(h) == addHidden(h, "wrapper")


\* what the setTimeout callback of showTemporaryMessage does when it fires:
\* hide the message element again, then run the callback it was given
InvalidTimer == [element |-> "error", callback |-> "none"]
SuccessTimer == [element |-> "sent", callback |-> "hideNewsletterWrapper"]
ErrorTimer == [element |-> "error", callback |-> "showForm"]

\* the synchronous part of showTemporaryMessage: show the element
showTemporaryMessage(h, element) == removeHidden(h, element)

\* variant: the wrapper is shown again as well
showFormAgain_ShowsWrapper(h) ==
    removeHidden(removeHidden(removeHidden(h, "form"), "dismiss"), "wrapper")

\* variant: only the dismiss link is shown again
showFormAgain_DismissOnly(h) == removeHidden(h, "dismiss")

\* the arrow function handed to showTemporaryMessage on the two error paths
showFormAgain(h) == removeHidden(removeHidden(h, "form"), "dismiss")

runCallback(h, callback) ==
    CASE callback = "hideNewsletterWrapper" -> hideNewsletterWrapper(h)
      [] callback = "showForm" -> showFormAgain(h)
      [] OTHER -> h

\* variant: the message element is left shown, only the callback runs
timerCallback_CallbackOnly(h, t) == runCallback(h, t.callback)

\* the body of the setTimeout arrow function
timerCallback(h, t) == runCallback(addHidden(h, t.element), t.callback)

\* accepted path: hide the form, the dismiss link and the error element
hideFormForSuccess(h) ==
    addHidden(addHidden(addHidden(h, "form"), "dismiss"), "error")

\* variant: the error paths show the wrapper
hideFormForError_ShowsWrapper(h) ==
    removeHidden(addHidden(addHidden(h, "form"), "dismiss"), "wrapper")

\* both error paths: hide the form and the dismiss link while the error shows
hideFormForError(h) == addHidden(addHidden(h, "form"), "dismiss")

(***************************************************************************)
(* subscribeToGhost: the pure parts.                                       *)
(***************************************************************************)
includes(s, c) == \E k \in 1..Len(s) : s[k] = c

\* variant: only the empty email is refused
IsInvalidEmail_EmptyOnly(email) == email = <<>>

\* !email || !email.includes('@')
IsInvalidEmail(email) == email = <<>> \/ ~includes(email, "@")

\* variant: the status of the token response is not looked at
ResponseOk_Unchecked(status) == TRUE

\* response.ok of the token response
ResponseOk(status) == status >= 200 /\ status <= 299

\* response.status === 201
IsAccepted(status) == status = 201

\* variant: the payload carries a token kept from an earlier call
Payload_StaleToken(email, integrityToken) ==
    [email |-> email, emailType |-> "subscribe", integrityToken |-> "tok_abc123"]

\* the JSON body of the POST; the options argument is left at its default {}
Payload(email, integrityToken) ==
    [email |-> email, emailType |-> "subscribe", integrityToken |-> integrityToken]
NoPayload == [email |-> <<>>, emailType |-> Undefined, integrityToken |-> Undefined]

\* a JavaScript value used as a condition
Truthy(s) == s # Undefined /\ s # ""

\* response.json().catch(() => ({}))
ErrorDataOf(body) == IF body = ParseFailure THEN JsonObject(<<>>) ELSE body

\* errorData.errors throws a TypeError when errorData is null
ReadingErrorsThrows(errorData) == errorData.type = "null"

\* variant: the body is ignored
ErrorMessageOf_BodyIgnored(errorData) == FALLBACK_MESSAGE

\* variant: no fallback for a missing or empty message
ErrorMessageOf_NoFallback(errorData) ==
    IF Len(errorData.errors) > 0 THEN errorData.errors[1].message ELSE Undefined

\* errorData.errors?.[0]?.message || 'Subscription failed. Please try again.'
ErrorMessageOf(errorData) ==
    LET first == IF Len(errorData.errors) > 0
                 THEN errorData.errors[1].message ELSE Undefined
    IN  IF Truthy(first) THEN first ELSE FALLBACK_MESSAGE

\* variant: the displayed text is returned
InvalidEmailResult_DisplayedText == [success |-> FALSE, error |-> INVALID_EMAIL_TEXT]

\* the values subscribeToGhost returns
InvalidEmailResult == [success |-> FALSE, error |-> INVALID_EMAIL_ERROR]
AcceptedResult == [success |-> TRUE, message |-> SUCCESS_MESSAGE]
RejectedResult(errorMessage) == [success |-> FALSE, error |-> errorMessage]
NetworkErrorResult == [success |-> FALSE, error |-> NETWORK_ERROR_MESSAGE]
\* no value
NoResult == [settled |-> FALSE]

\* variant: the try block ends before the error body is read
InTry_WithoutErrorBody(pc) == pc \in {"awaitToken", "awaitText", "awaitPost"}

\* the awaits that lie inside the try block of subscribeToGhost
InTry(pc) == pc \in {"awaitToken", "awaitText", "awaitPost", "awaitJson"}

\* the frame of an invocation: where it is suspended, its locals, and the
\* number of GETs and POSTs it has issued
IdleInvocation ==
    [pc |-> "idle", email |-> <<>>, gets |-> 0, posts |-> 0,
     tokenResponse |-> <<>>, token |-> Undefined, payload |-> NoPayload,
     postResponse |-> <<>>]

\* a token body that could not be read
ReadFailure == "<read failure>"

\* nothing has been returned in this page view
NothingReturned == [value |-> NoResult, gets |-> 0, posts |-> 0]

\* invocation i returns result to its caller; its frame is gone
Return(i, result) ==
    /\ inv' = [inv EXCEPT ![i] = IdleInvocation]
    /\ returned' = [value |-> result, gets |-> inv[i].gets, posts |-> inv[i].posts]

(***************************************************************************)
(* Initial state: the script has been loaded into a fresh browser and      *)
(* initNewsletterForm has run.                                             *)
(***************************************************************************)
\* variant: the wrapper is never hidden on load
initNewsletterForm_NeverHides(session, local) == InitialHidden

\* initNewsletterForm on the page's markup
initNewsletterForm(session, local) ==
    IF ~shouldShowFormIn(session, local)
    THEN hideNewsletterWrapper(InitialHidden)
    ELSE InitialHidden

\* a page load: the former execution context (its invocations, its timers) is
\* gone, the markup is fresh and initNewsletterForm runs on it; a storage
\* access that throws ends initNewsletterForm before it touches the DOM
LoadPage(available, session, local) ==
    /\ hidden' = IF available THEN initNewsletterForm(session, local)
                              ELSE InitialHidden
    /\ faults' = IF available THEN {} ELSE {"initNewsletterForm"}
    /\ errorText' = ""
    /\ timers' = <<>>
    /\ inv' = [i \in Invocations |-> IdleInvocation]
    /\ returned' = NothingReturned

InitWith(available) ==
    /\ storageAvailable = available
    /\ sessionStorage = EmptyStorage
    /\ localStorage = EmptyStorage
    /\ hidden = IF available THEN initNewsletterForm(EmptyStorage, EmptyStorage)
                             ELSE InitialHidden
    /\ faults = IF available THEN {} ELSE {"initNewsletterForm"}
    /\ errorText = ""
    /\ timers = <<>>
    /\ inv = [i \in Invocations |-> IdleInvocation]
    /\ returned = NothingReturned

\* a browser whose storage works
Init == InitWith(TRUE)

\* a browser whose storage works, or one whose host has disabled storage
InitAnyStorage == \E available \in BOOLEAN : InitWith(available)

(***************************************************************************)
(* subscribeToGhost, one action per stretch of code between two awaits.    *)
(***************************************************************************)
\* the invocations and pending timers that will still want a timer slot
Outstanding ==
    Len(timers) + Cardinality({ j \in Invocations : inv[j].pc # "idle" })

\* variant: the catch block records a subscription
Catch_MarksSubscribed(i) ==
    /\ errorText' = NETWORK_ERROR_MESSAGE
    /\ hidden' = showTemporaryMessage(hideFormForError(hidden), "error")
    /\ timers' = Append(timers, ErrorTimer)
    /\ Return(i, NetworkErrorResult)
    /\ sessionStorage' = markSubscribedThisSession(sessionStorage)
    /\ UNCHANGED << storageAvailable, localStorage, faults >>

\* variant: the catch block issues the token GET once more
Catch_Retry(i) ==
    /\ inv' = [inv EXCEPT ![i] = [inv[i] EXCEPT !.pc = "awaitToken",
                                                !.gets = inv[i].gets + 1]]
    /\ UNCHANGED << storageAvailable, sessionStorage, localStorage, hidden,
                    errorText, timers, returned, faults >>

\* the catch block: the network error is rendered and returned
Catch(i) ==
    /\ errorText' = NETWORK_ERROR_MESSAGE
    /\ hidden' = showTemporaryMessage(hideFormForError(hidden), "error")
    /\ timers' = Append(timers, ErrorTimer)
    /\ Return(i, NetworkErrorResult)
    /\ UNCHANGED << storageAvailable, sessionStorage, localStorage, faults >>

\* an exception no handler takes: the promise of the invocation rejects
Uncaught(i) ==
    /\ inv' = [inv EXCEPT ![i] = IdleInvocation]
    /\ faults' = faults \cup {"subscribeToGhost"}
    /\ UNCHANGED << storageAvailable, sessionStorage, localStorage, hidden,
                    errorText, timers, returned >>

\* an exception raised while invocation i runs from the await it is at
Throw(i) == IF InTry(inv[i].pc) THEN Catch(i) ELSE Uncaught(i)

\* variant: a call made while another invocation is in flight is ignored
Subscribe_Guarded(i, email) ==
    /\ inv[i].pc = "idle"
    /\ \A j \in Invocations : inv[j].pc = "idle"
    /\ Outstanding < MaxTimers
    /\ IF IsInvalidEmail(email)
       THEN /\ errorText' = INVALID_EMAIL_TEXT
            /\ hidden' = showTemporaryMessage(hidden, "error")
            /\ timers' = Append(timers, InvalidTimer)
            /\ Return(i, InvalidEmailResult)
       ELSE /\ inv' = [inv EXCEPT ![i] =
                          [IdleInvocation EXCEPT !.pc = "awaitToken",
                                                 !.email = email, !.gets = 1]]
            /\ UNCHANGED << errorText, hidden, timers, returned >>
    /\ UNCHANGED << storageAvailable, sessionStorage, localStorage, faults >>

\* the call itself: validation, and for a valid email the token GET
Subscribe(i, email) ==
    /\ inv[i].pc = "idle"
    /\ \A j \in Invocations : j < i => inv[j].pc # "idle"
    /\ Outstanding < MaxTimers
    /\ IF IsInvalidEmail(email)
       THEN /\ errorText' = INVALID_EMAIL_TEXT
            /\ hidden' = showTemporaryMessage(hidden, "error")
            /\ timers' = Append(timers, InvalidTimer)
            /\ Return(i, InvalidEmailResult)
       ELSE /\ inv' = [inv EXCEPT ![i] =
                          [IdleInvocation EXCEPT !.pc = "awaitToken",
                                                 !.email = email, !.gets = 1]]
            /\ UNCHANGED << errorText, hidden, timers, returned >>
    /\ UNCHANGED << storageAvailable, sessionStorage, localStorage, faults >>

\* the token GET settles: fetch rejects, or answers with a status
TokenResponse(i, outcome) ==
    /\ inv[i].pc = "awaitToken"
    /\ IF outcome = Transport \/ ~ResponseOk(outcome)
       THEN Throw(i)
       ELSE /\ inv' = [inv EXCEPT ![i] =
                          [inv[i] EXCEPT !.pc = "awaitText",
                                         !.tokenResponse = <<outcome>>]]
            /\ UNCHANGED << storageAvailable, sessionStorage, localStorage,
                            hidden, errorText, timers, returned, faults >>

\* response.text() settles; with the token the payload is built and POSTed
TokenText(i, text) ==
    /\ inv[i].pc = "awaitText"
    /\ IF text = ReadFailure
       THEN Throw(i)
       ELSE /\ inv' = [inv EXCEPT ![i] =
                          [inv[i] EXCEPT !.pc = "awaitPost", !.token = text,
                                         !.payload = Payload(inv[i].email, text),
                                         !.posts = inv[i].posts + 1]]
            /\ UNCHANGED << storageAvailable, sessionStorage, localStorage,
                            hidden, errorText, timers, returned, faults >>

\* variant: the accepted path cancels the timers that are pending
Accept_CancelsTimers(i) ==
    IF ~storageAvailable
    THEN Throw(i)
    ELSE /\ sessionStorage' = markSubscribedThisSession(sessionStorage)
         /\ hidden' = showTemporaryMessage(hideFormForSuccess(hidden), "sent")
         /\ timers' = << SuccessTimer >>
         /\ Return(i, AcceptedResult)
         /\ UNCHANGED << storageAvailable, localStorage, errorText, faults >>

\* the accepted path; sessionStorage.setItem throws when storage is disabled
Accept(i) ==
    IF ~storageAvailable
    THEN Throw(i)
    ELSE /\ sessionStorage' = markSubscribedThisSession(sessionStorage)
         /\ hidden' = showTemporaryMessage(hideFormForSuccess(hidden), "sent")
         /\ timers' = Append(timers, SuccessTimer)
         /\ Return(i, AcceptedResult)
         /\ UNCHANGED << storageAvailable, localStorage, errorText, faults >>

\* the subscription POST settles
PostResponse(i, outcome) ==
    /\ inv[i].pc = "awaitPost"
    /\ IF outcome = Transport
       THEN Throw(i)
       ELSE IF IsAccepted(outcome)
       THEN Accept(i)
       ELSE /\ inv' = [inv EXCEPT ![i] =
                          [inv[i] EXCEPT !.pc = "awaitJson",
                                         !.postResponse = <<outcome>>]]
            /\ UNCHANGED << storageAvailable, sessionStorage, localStorage,
                            hidden, errorText, timers, returned, faults >>

\* response.json() of a response that is not 201 settles
JsonBody(i, body) ==
    /\ inv[i].pc = "awaitJson"
    /\ LET errorData == ErrorDataOf(body)
       IN  IF ReadingErrorsThrows(errorData)
           THEN Throw(i)
           ELSE /\ errorText' = ErrorMessageOf(errorData)
                /\ hidden' = showTemporaryMessage(hideFormForError(hidden), "error")
                /\ timers' = Append(timers, ErrorTimer)
                /\ Return(i, RejectedResult(ErrorMessageOf(errorData)))
                /\ UNCHANGED << storageAvailable, sessionStorage, localStorage,
                                faults >>

\* the oldest pending setTimeout callback runs
TimerFire ==
    /\ timers # <<>>
    /\ hidden' = timerCallback(hidden, Head(timers))
    /\ timers' = Tail(timers)
    /\ UNCHANGED << storageAvailable, sessionStorage, localStorage, errorText,
                    inv, returned, faults >>

(***************************************************************************)
(* The other operations of the script, and the browser.                    *)
(***************************************************************************)
\* variant: the wrapper's class is toggled
DismissNewsletter_Toggle ==
    /\ IF storageAvailable
       THEN /\ localStorage' = setItem(localStorage, NEWSLETTER_NEVER_SHOW_KEY, "true")
            /\ hidden' = [hidden EXCEPT !["wrapper"] = ~hidden["wrapper"]]
            /\ UNCHANGED faults
       ELSE /\ faults' = faults \cup {"dismissNewsletter"}
            /\ UNCHANGED << localStorage, hidden >>
    /\ UNCHANGED << storageAvailable, sessionStorage, errorText, timers, inv,
                    returned >>

DismissNewsletter ==
    /\ IF storageAvailable
       THEN /\ localStorage' = setItem(localStorage, NEWSLETTER_NEVER_SHOW_KEY, "true")
            /\ hidden' = addHidden(hidden, "wrapper")
            /\ UNCHANGED faults
       ELSE /\ faults' = faults \cup {"dismissNewsletter"}
            /\ UNCHANGED << localStorage, hidden >>
    /\ UNCHANGED << storageAvailable, sessionStorage, errorText, timers, inv,
                    returned >>

ClearDismissal ==
    /\ IF storageAvailable
       THEN localStorage' = clearDismissal(localStorage) /\ UNCHANGED faults
       ELSE faults' = faults \cup {"clearDismissal"} /\ UNCHANGED localStorage
    /\ UNCHANGED << storageAvailable, sessionStorage, hidden, errorText, timers,
                    inv, returned >>

ClearSessionSubscription ==
    /\ IF storageAvailable
       THEN sessionStorage' = clearSessionSubscription(sessionStorage)
            /\ UNCHANGED faults
       ELSE faults' = faults \cup {"clearSessionSubscription"}
            /\ UNCHANGED sessionStorage
    /\ UNCHANGED << storageAvailable, localStorage, hidden, errorText, timers,
                    inv, returned >>

\* the page is loaded again in the same browser session
PageLoad ==
    /\ LoadPage(storageAvailable, sessionStorage, localStorage)
    /\ UNCHANGED << storageAvailable, sessionStorage, localStorage >>

\* the browser session ends (sessionStorage is emptied, localStorage is kept)
\* and the page is loaded in a new one
NewSession ==
    /\ sessionStorage' = EmptyStorage
    /\ LoadPage(storageAvailable, EmptyStorage, localStorage)
    /\ UNCHANGED << storageAvailable, localStorage >>

Next ==
    \/ \E i \in Invocations, email \in Emails : Subscribe(i, email)
    \/ \E i \in Invocations, outcome \in TokenOutcomes : TokenResponse(i, outcome)
    \/ \E i \in Invocations, text \in Tokens \cup {ReadFailure} : TokenText(i, text)
    \/ \E i \in Invocations, outcome \in PostOutcomes : PostResponse(i, outcome)
    \/ \E i \in Invocations, body \in Bodies : JsonBody(i, body)
    \/ TimerFire
    \/ DismissNewsletter
    \/ ClearDismissal
    \/ ClearSessionSubscription
    \/ PageLoad
    \/ NewSession

Spec == Init /\ [][Next]_vars

SpecAnyStorage == InitAnyStorage /\ [][Next]_vars

(***************************************************************************)
(* One page view of a fresh browser in which every call of                 *)
(* subscribeToGhost is made before any call has returned and before any    *)
(* message is displayed: all the invocations overlap.  Nothing else is     *)
(* called and the page is not left.                                        *)
(***************************************************************************)
SubscribeOverlapping(i, email) ==
    /\ returned = NothingReturned
    /\ timers = <<>>
    /\ Subscribe(i, email)

NextOverlap ==
    \/ \E i \in Invocations, email \in Emails : SubscribeOverlapping(i, email)
    \/ \E i \in Invocations, outcome \in TokenOutcomes : TokenResponse(i, outcome)
    \/ \E i \in Invocations, text \in Tokens \cup {ReadFailure} : TokenText(i, text)
    \/ \E i \in Invocations, outcome \in PostOutcomes : PostResponse(i, outcome)
    \/ \E i \in Invocations, body \in Bodies : JsonBody(i, body)
    \/ TimerFire

SpecOverlap == Init /\ [][NextOverlap]_vars

(***************************************************************************)
(* Vocabulary of the properties.                                           *)
(***************************************************************************)
\* r is a value of the shape {success, message?, error?}
IsResult(r) == "success" \in DOMAIN r

\* field f of record r is present and holds a non-empty string
Populated(r, f) == f \in DOMAIN r /\ r[f] # "" /\ r[f] # "<undefined>"

\* an email that is empty or holds no '@'
Malformed(email) == email = <<>> \/ \A k \in 1..Len(email) : email[k] # "@"

\* a step in which invocation i issues a request
IssuesRequest(i) == inv'[i].gets > inv[i].gets \/ inv'[i].posts > inv[i].posts

(***************************************************************************)
(* C1.  A call with an email that is empty or holds no '@' issues no       *)
(* request: it returns in the same step with no GET and no POST issued,    *)
(* and every step that issues a GET or a POST is the step of an invocation *)
(* whose email holds an '@'.                                               *)
(***************************************************************************)
C1_NoRequestForMalformedEmail ==
    [][\A i \in Invocations :
          /\ \A email \in Emails :
                (Malformed(email) /\ Subscribe(i, email))
                    => /\ inv'[i].pc = "idle"
                       /\ inv'[i].gets = 0 /\ inv'[i].posts = 0
                       /\ returned'.gets = 0 /\ returned'.posts = 0
          /\ IssuesRequest(i) => ~Malformed(inv'[i].email)
      ]_vars

\* a malformed email has been refused, no request issued, while nothing else
\* is in flight
C1_Witness ==
    /\ IsResult(returned.value)
    /\ returned.value.success = FALSE
    /\ returned.gets = 0 /\ returned.posts = 0
    /\ \A i \in Invocations : inv[i].pc = "idle"

(***************************************************************************)
(* C2 as stated: for a malformed email the value returned is exactly       *)
(* {success: false, error: "Please enter a valid email address"}.          *)
(***************************************************************************)
C2_Original ==
    [][\A i \in Invocations, email \in Emails :
          (Malformed(email) /\ Subscribe(i, email))
              => returned'.value =
                    [success |-> FALSE, error |-> "Please enter a valid email address"]
      ]_vars

(***************************************************************************)
(* C2 amended: for a malformed email the value returned is exactly         *)
(* {success: false, error: "Invalid email address"}; the text "Please      *)
(* enter a valid email address" is what the error element displays.        *)
(***************************************************************************)
C2_InvalidEmailResult ==
    [][\A i \in Invocations, email \in Emails :
          (Malformed(email) /\ Subscribe(i, email))
              => /\ returned'.value =
                        [success |-> FALSE, error |-> "Invalid email address"]
                 /\ errorText' = "Please enter a valid email address"
                 /\ ~hidden'["error"]
      ]_vars

C2_Witness ==
    /\ returned.value = [success |-> FALSE, error |-> "Invalid email address"]
    /\ errorText = "Please enter a valid email address"
    /\ ~hidden["error"]

(***************************************************************************)
(* C3.  When the subscription POST of an invocation (which is in flight    *)
(* only for an email with '@' and after a token GET with a success status) *)
(* is answered with 201, the call returns {success: true, message:         *)
(* non-empty} with no error field, and the session flag is true when it    *)
(* returns.  Checked for a browser whose storage works, which the flag     *)
(* being true presupposes.                                                 *)
(***************************************************************************)
C3_AcceptedResult ==
    [][\A i \in Invocations :
          PostResponse(i, 201)
              => /\ ~Malformed(inv[i].email)
                 /\ inv[i].tokenResponse[1] \in 200..299
                 /\ DOMAIN returned'.value = {"success", "message"}
                 /\ returned'.value.success = TRUE
                 /\ Populated(returned'.value, "message")
                 /\ sessionStorage'["newsletter_subscribed_session"] = "true"
      ]_vars

C3_Witness ==
    /\ IsResult(returned.value)
    /\ returned.value.success = TRUE
    /\ returned.posts = 1
    /\ sessionStorage["newsletter_subscribed_session"] = "true"

\* the error bodies whose first errors entry has message m
BodiesWithMessage(m) == { b \in Bodies : Len(b.errors) > 0 /\ b.errors[1].message = m }

\* a step of invocation i that is not the handling of a 201
StepWithout201(i) ==
    \/ \E email \in Emails : Subscribe(i, email)
    \/ \E outcome \in TokenOutcomes : TokenResponse(i, outcome)
    \/ \E text \in Tokens \cup {ReadFailure} : TokenText(i, text)
    \/ \E outcome \in PostOutcomes \ {201} : PostResponse(i, outcome)
    \/ \E body \in Bodies : JsonBody(i, body)

(***************************************************************************)
(* C4 as stated: when the POST is answered with a status other than 201    *)
(* and a JSON body whose first errors entry has a message, the call        *)
(* returns {success: false, error: that message}, and no step of the       *)
(* invocation changes the session flag.                                    *)
(***************************************************************************)
C4_Original ==
    [][\A i \in Invocations :
          /\ \A m \in Messages \ {"<undefined>"} : \A body \in BodiesWithMessage(m) :
                JsonBody(i, body)
                    => /\ inv[i].postResponse[1] # 201
                       /\ returned'.value = [success |-> FALSE, error |-> m]
          /\ StepWithout201(i) => sessionStorage' = sessionStorage
      ]_vars

(***************************************************************************)
(* C4 amended: when the POST is answered with a status other than 201      *)
(* (200 included) and a JSON body whose first errors entry has a non-empty *)
(* message, the call returns {success: false, error: that message}; an     *)
(* empty message yields the fallback text instead.  No step of an          *)
(* invocation other than the handling of a 201 changes the session flag.   *)
(***************************************************************************)
C4_RejectedResult ==
    [][\A i \in Invocations :
          /\ \A m \in Messages \ {"<undefined>"} : \A body \in BodiesWithMessage(m) :
                JsonBody(i, body)
                    => /\ inv[i].postResponse[1] # 201
                       /\ returned'.value =
                            [success |-> FALSE,
                             error |-> IF m # "" THEN m
                                       ELSE "Subscription failed. Please try again."]
          /\ StepWithout201(i) => sessionStorage' = sessionStorage
      ]_vars

\* a 200 or 400 with the server's message has been turned into the result,
\* the flag still unset
C4_Witness ==
    /\ returned.value = [success |-> FALSE, error |-> "Member already exists"]
    /\ returned.posts = 1
    /\ sessionStorage["newsletter_subscribed_session"] # "true"

\* the generic network message as a result
NetworkFailure ==
    [success |-> FALSE,
     error |-> "Network error. Please check your connection and try again."]

(***************************************************************************)
(* C5.  An invocation issues its POST only from the point where its token  *)
(* GET has been answered with a success status and the token read; when    *)
(* the token GET fails (transport failure, a status outside 200..299, or   *)
(* a body that cannot be read) the invocation ends there with no POST      *)
(* issued and returns {success: false, error: the network message}.        *)
(***************************************************************************)
C5_PostOnlyAfterToken ==
    [][\A i \in Invocations :
          /\ inv'[i].posts > inv[i].posts
                => /\ inv[i].pc = "awaitText"
                   /\ inv[i].gets = 1
                   /\ inv[i].tokenResponse[1] \in 200..299
                   /\ inv'[i].payload.integrityToken \in Tokens
          /\ \A outcome \in TokenOutcomes :
                (outcome \notin 200..299 /\ TokenResponse(i, outcome))
                    => /\ inv'[i].pc = "idle"
                       /\ returned' = [value |-> NetworkFailure, gets |-> 1, posts |-> 0]
          /\ TokenText(i, ReadFailure)
                => /\ inv'[i].pc = "idle"
                   /\ returned' = [value |-> NetworkFailure, gets |-> 1, posts |-> 0]
      ]_vars

\* a token GET has failed: the network message was returned, no POST issued
C5_Witness ==
    returned = [value |-> NetworkFailure, gets |-> 1, posts |-> 0]

\* a step in which invocation i runs code of subscribeToGhost
InvocationStep(i) == StepWithout201(i) \/ PostResponse(i, 201)

(***************************************************************************)
(* C6.  Whatever the two network calls answer, and whether or not storage  *)
(* works, an invocation never ends in an uncaught exception: each step in  *)
(* which an invocation ends hands a {success, ...} value to the caller.    *)
(***************************************************************************)
C6_AlwaysReturnsResult ==
    [][\A i \in Invocations :
          InvocationStep(i)
              => /\ "subscribeToGhost" \notin faults'
                 /\ inv'[i].pc = "idle"
                       => /\ IsResult(returned'.value)
                          /\ returned'.gets = inv[i].gets
                          /\ returned'.posts = inv[i].posts
      ]_vars

\* storage is disabled, the POST went out and the exception of the accepted
\* path was turned into a result
C6_Witness ==
    /\ ~storageAvailable
    /\ returned = [value |-> NetworkFailure, gets |-> 1, posts |-> 1]
    /\ "subscribeToGhost" \notin faults

(***************************************************************************)
(* C7.  Every value subscribeToGhost has returned carries exactly one of   *)
(* message / error: a non-empty message and no error when success is true, *)
(* a non-empty error and no message when success is false.                 *)
(***************************************************************************)
C7_ExactlyOneOfMessageError ==
    IsResult(returned.value)
        => IF returned.value.success
           THEN Populated(returned.value, "message")
                /\ "error" \notin DOMAIN returned.value
           ELSE Populated(returned.value, "error")
                /\ "message" \notin DOMAIN returned.value

\* a rejection has been returned with the fallback text, which is displayed
C7_Witness ==
    /\ returned.value =
          [success |-> FALSE, error |-> "Subscription failed. Please try again."]
    /\ errorText = "Subscription failed. Please try again."

(***************************************************************************)
(* C8 as stated: with storage unavailable no operation throws (page-load   *)
(* initialisation, subscribe, dismiss, clear), the flags read as false and *)
(* stay unwritten, and a POST answered with 201 yields a success result.   *)
(***************************************************************************)
C8_Original ==
    [][~storageAvailable
          => /\ faults' = {}
             /\ sessionStorage' = EmptyStorage /\ localStorage' = EmptyStorage
             /\ \A i \in Invocations :
                   PostResponse(i, 201)
                       => IsResult(returned'.value) /\ returned'.value.success
      ]_vars

(***************************************************************************)
(* C9 as stated: a subscription recorded in one browser session is         *)
(* remembered in the next: when the session ends with the subscription     *)
(* recorded and the page is loaded in a new session, the form is not       *)
(* shown (the wrapper is hidden).                                          *)
(***************************************************************************)
C9_Original ==
    [][(NewSession /\ sessionStorage["newsletter_subscribed_session"] = "true")
          => hidden'["wrapper"]
      ]_vars

\* the session flag and the permanent flag as the storage holds them
SessionFlag == sessionStorage["newsletter_subscribed_session"] = "true"
PermanentFlag == localStorage["newsletter_never_show"] = "true"

(***************************************************************************)
(* C10 as stated: once the session flag is marked, shouldShowForm is false *)
(* on every check until the flag is cleared, and after                     *)
(* clearSessionSubscription it is true again.                              *)
(***************************************************************************)
C10_Original ==
    [][/\ \A i \in Invocations : PostResponse(i, 201) => ~shouldShowForm'
       /\ (SessionFlag /\ ~ClearSessionSubscription /\ ~NewSession)
             => ~shouldShowForm'
       /\ (SessionFlag /\ PageLoad) => hidden'["wrapper"]
       /\ (SessionFlag /\ ClearSessionSubscription) => shouldShowForm'
      ]_vars

(***************************************************************************)
(* C10 amended: once the session flag is marked, shouldShowForm is false   *)
(* on every check (and a page load hides the wrapper) until the flag is    *)
(* cleared; after clearSessionSubscription it is true again exactly when   *)
(* the form has not been permanently dismissed.                            *)
(***************************************************************************)
C10_RoundTrip ==
    [][/\ \A i \in Invocations : PostResponse(i, 201) => ~shouldShowForm'
       /\ (SessionFlag /\ ~ClearSessionSubscription /\ ~NewSession)
             => ~shouldShowForm'
       /\ (SessionFlag /\ PageLoad) => hidden'["wrapper"]
       /\ (SessionFlag /\ ClearSessionSubscription)
             => (shouldShowForm' <=> ~PermanentFlag')
      ]_vars

\* the flag was marked by an accepted subscription of this page view and has
\* been cleared again: the form would be shown
C10_Witness ==
    /\ IsResult(returned.value)
    /\ returned.value.success
    /\ ~SessionFlag
    /\ ~PermanentFlag
    /\ shouldShowForm

(***************************************************************************)
(* C11.  Dismissal is idempotent: dismissNewsletter sets the permanent     *)
(* flag and hides the wrapper without an error, and called again in the    *)
(* state it has produced it changes nothing: the flag stays true, the      *)
(* wrapper stays hidden, no error is raised.  Checked for a browser whose  *)
(* storage works, which the flag being true presupposes.                   *)
(***************************************************************************)
C11_DismissIdempotent ==
    /\ [][DismissNewsletter
             => /\ PermanentFlag' /\ hidden'["wrapper"]
                /\ faults' = faults
                /\ localStorage' = [localStorage EXCEPT !["newsletter_never_show"] = "true"]
         ]_vars
    /\ []((PermanentFlag /\ hidden["wrapper"]) => ~ENABLED <<DismissNewsletter>>_vars)

\* the newsletter has been dismissed
C11_Witness ==
    /\ PermanentFlag
    /\ hidden["wrapper"]
    /\ "dismissNewsletter" \notin faults
    /\ ~ENABLED <<DismissNewsletter>>_vars

(***************************************************************************)
(* C12.  After a page load (the first one, a reload, or the load in a new  *)
(* session) the wrapper is hidden if and only if the session flag or the   *)
(* permanent flag is true; when both are false or absent the form is left  *)
(* visible and the two messages hidden.                                    *)
(***************************************************************************)
C12_PageLoadVisibility ==
    /\ (hidden["wrapper"] <=> (SessionFlag \/ PermanentFlag))
    /\ ~hidden["form"]
    /\ [][(PageLoad \/ NewSession)
             => /\ hidden'["wrapper"] <=> (SessionFlag' \/ PermanentFlag')
                /\ (~SessionFlag' /\ ~PermanentFlag')
                      => /\ ~hidden'["form"] /\ ~hidden'["dismiss"]
                         /\ hidden'["sent"] /\ hidden'["error"]
         ]_vars

\* the page has been loaded with only the session flag set: the wrapper is
\* hidden though nothing was dismissed and no call has returned
C12_Witness ==
    /\ SessionFlag /\ ~PermanentFlag
    /\ hidden["wrapper"]
    /\ returned = NothingReturned
    /\ timers = <<>>

\* the success message of an accepted attempt is within its display time
SuccessPending == \E k \in 1..Len(timers) : timers[k] = SuccessTimer

\* the page view ends
LeavesPage == PageLoad \/ NewSession

\* the form is presented: neither it nor the wrapper carries 'hidden'
FormVisible == ~hidden["form"] /\ ~hidden["wrapper"]

(***************************************************************************)
(* C13 as stated: on a 201 the form is hidden, the display timer hides the *)
(* whole wrapper when it fires, the wrapper then stays hidden, and from    *)
(* the acceptance on the form is never visible again in this page view,    *)
(* whatever other invocations or timer callbacks run.                      *)
(***************************************************************************)
C13_Original ==
    /\ [][\A i \in Invocations : PostResponse(i, 201) => hidden'["form"]]_vars
    /\ [][(TimerFire /\ Head(timers) = SuccessTimer) => hidden'["wrapper"]]_vars
    /\ [][(hidden["wrapper"] /\ ~LeavesPage) => hidden'["wrapper"]]_vars
    /\ [](SuccessPending => ~FormVisible)

\* a step in which invocation i, having issued its token GET, ends with a
\* failure: a rejection or the network error
FailedAttempt(i) ==
    /\ InvocationStep(i)
    /\ inv[i].gets = 1 /\ inv'[i].pc = "idle"
    /\ IsResult(returned'.value) /\ ~returned'.value.success

\* the timer of a failed attempt fires
ErrorTimerFires == TimerFire /\ Head(timers) = ErrorTimer

\* what every failed attempt renders
ErrorRendered ==
    \A i \in Invocations :
       FailedAttempt(i)
           => /\ errorText' = returned'.value.error
              /\ ~hidden'["error"]
              /\ hidden'["form"]

(***************************************************************************)
(* C14 as stated: every attempt that ends rejected or with the network     *)
(* error (a failed token GET included) leaves its message in the error     *)
(* element, the error element shown and the form hidden; when the timer    *)
(* of a failed attempt fires, the error is hidden and the form is visible  *)
(* again.                                                                  *)
(***************************************************************************)
C14_Original ==
    [][/\ ErrorRendered
       /\ ErrorTimerFires => (hidden'["error"] /\ FormVisible')
      ]_vars

(***************************************************************************)
(* C14 amended: every attempt that ends rejected or with the network error *)
(* (a failed token GET included) leaves its message in the error element,  *)
(* the error element shown and the form hidden; when the timer of a failed *)
(* attempt fires, the error is hidden and the form is un-hidden, so the    *)
(* form is visible again unless the wrapper has been hidden meanwhile,     *)
(* which only a dismissal or the timer of an accepted attempt does within  *)
(* a page view.                                                            *)
(***************************************************************************)
C14_ErrorThenFormAgain ==
    [][/\ ErrorRendered
       /\ ErrorTimerFires
             => /\ hidden'["error"] /\ ~hidden'["form"]
                /\ FormVisible' <=> ~hidden["wrapper"]
       /\ (~hidden["wrapper"] /\ hidden'["wrapper"])
             => \/ DismissNewsletter
                \/ (TimerFire /\ Head(timers) = SuccessTimer)
                \/ LeavesPage
      ]_vars

\* an attempt has failed after its token GET and its timer has fired: the
\* error is hidden and the form is presented again
C14_Witness ==
    /\ IsResult(returned.value) /\ ~returned.value.success
    /\ returned.gets = 1
    /\ timers = <<>>
    /\ \A i \in Invocations : inv[i].pc = "idle"
    /\ hidden["error"] /\ FormVisible

\* element e is presented: neither it nor the wrapper carries 'hidden'
Visible(e) == ~hidden[e] /\ ~hidden["wrapper"]

(***************************************************************************)
(* C15 as stated: in every reachable state at most one of the form, the    *)
(* success message and the error message is visible, and none of them is   *)
(* visible once the wrapper is hidden.                                     *)
(***************************************************************************)
C15_Original ==
    /\ Cardinality({ e \in {"form", "sent", "error"} : Visible(e) }) <= 1
    /\ hidden["wrapper"] => \A e \in {"form", "sent", "error"} : ~Visible(e)

\* what C16 says of every step but the clearing of the session flag
FlagsSetAndKept ==
    /\ (~SessionFlag /\ SessionFlag') => \E i \in Invocations : PostResponse(i, 201)
    /\ (~PermanentFlag /\ PermanentFlag') => DismissNewsletter
    /\ (PermanentFlag /\ ~PermanentFlag') => ClearDismissal
    /\ \A i \in Invocations :
          StepWithout201(i)
              => /\ sessionStorage' = sessionStorage
                 /\ localStorage' = localStorage

C17_DismissalTerminal ==
    [][/\ DismissNewsletter => (PermanentFlag' /\ hidden'["wrapper"])
       /\ (PermanentFlag /\ ~ClearDismissal) => PermanentFlag'
       /\ (hidden["wrapper"] /\ ~hidden'["wrapper"]) => (LeavesPage /\ ~PermanentFlag)
       /\ (LeavesPage /\ PermanentFlag) => hidden'["wrapper"]
      ]_vars

\* a page view that started with only the permanent flag set: the wrapper is
\* hidden and nothing has been called yet
C17_Witness ==
    /\ PermanentFlag /\ ~SessionFlag
    /\ hidden["wrapper"]
    /\ returned = NothingReturned
    /\ timers = <<>>
    /\ \A i \in Invocations : inv[i].pc = "idle"

(***************************************************************************)
(* C18 as stated: whenever the POST received a response, whatever its      *)
(* status and whatever its body (a body that parses to a non-object or     *)
(* that cannot be parsed included), the value returned is the success      *)
(* value or a rejection, never the network-error message.                  *)
(***************************************************************************)
C18_Original ==
    [][\A i \in Invocations :
          /\ PostResponse(i, 201) => returned'.value.success
          /\ \A body \in Bodies :
                JsonBody(i, body)
                    => /\ IsResult(returned'.value)
                       /\ returned'.value # NetworkFailure
      ]_vars

\* the error bodies that cannot be parsed or hold no first entry with a message
BodiesWithoutMessage ==
    { b \in Bodies : \/ b.errors = <<>>
                     \/ b \in BodiesWithMessage("<undefined>") }

(***************************************************************************)
(* C19 as stated: when the POST is answered with a status other than 201   *)
(* and the error body cannot be parsed as JSON or holds no first errors    *)
(* entry with a message, nothing is thrown and the value returned is       *)
(* {success: false, error: "Subscription failed. Please try again."}.      *)
(***************************************************************************)
C19_Original ==
    [][\A i \in Invocations, body \in BodiesWithoutMessage :
          JsonBody(i, body)
              => /\ faults' = faults
                 /\ returned'.value =
                       [success |-> FALSE, error |-> "Subscription failed. Please try again."]
      ]_vars

(***************************************************************************)
(* C20.  No retry: an invocation issues at most one token GET and at most  *)
(* one subscription POST, whatever the responses are; this holds while it  *)
(* runs and of the counts it ends with.                                    *)
(***************************************************************************)
C20_NoRetry ==
    /\ \A i \in Invocations : inv[i].gets <= 1 /\ inv[i].posts <= 1
    /\ returned.gets <= 1 /\ returned.posts <= 1

\* an invocation has ended in the network error after both of its requests
\* went out once each, and nothing is in flight
C20_Witness ==
    /\ returned.value = NetworkFailure
    /\ returned.gets = 1 /\ returned.posts = 1
    /\ \A i \in Invocations : inv[i].pc = "idle"
    /\ storageAvailable

(***************************************************************************)
(* C21.  Token binding: the POST an invocation issues carries exactly the  *)
(* text its own token GET returned, while the frames of the other          *)
(* invocations are left alone; an invocation issues no second POST with    *)
(* its token; and no value held by sessionStorage or localStorage is a     *)
(* token.                                                                  *)
(***************************************************************************)
C21_TokenBinding ==
    /\ [][\A i \in Invocations, text \in Tokens :
             TokenText(i, text)
                 => /\ inv'[i].posts = 1
                    /\ inv'[i].token = text
                    /\ inv'[i].payload.integrityToken = text
                    /\ \A j \in Invocations \ {i} : inv'[j] = inv[j]
         ]_vars
    /\ [](\A i \in Invocations :
             /\ inv[i].posts <= 1
             /\ inv[i].posts = 1 => inv[i].payload.integrityToken = inv[i].token)
    /\ [](\A k \in StorageKeys :
             sessionStorage[k] \notin Tokens /\ localStorage[k] \notin Tokens)

\* two overlapping invocations have each issued their POST, each with the
\* token of its own GET, and the two tokens differ
C21_Witness ==
    /\ inv[1].pc = "awaitPost" /\ inv[2].pc = "awaitPost"
    /\ inv[1].token # inv[2].token
    /\ inv[1].payload.integrityToken = inv[1].token
    /\ inv[2].payload.integrityToken = inv[2].token

\* the timer of a refused email fires
InvalidTimerFires == TimerFire /\ Head(timers) = InvalidTimer

\* what the refusal of a malformed email does: the error element is shown,
\* nothing else of the page changes, and both storages are left alone
InlineErrorShown ==
    \A i \in Invocations, email \in Emails :
       (Malformed(email) /\ Subscribe(i, email))
           => /\ hidden' = [hidden EXCEPT !["error"] = FALSE]
              /\ FormVisible => FormVisible'
              /\ sessionStorage' = sessionStorage
              /\ localStorage' = localStorage

(***************************************************************************)
(* C22 as stated: a malformed email shows the error element at once while  *)
(* the form stays visible and the flags are unchanged, and when its timer  *)
(* fires the error is hidden and the form is visible.                      *)
(***************************************************************************)
C22_Original ==
    [][/\ InlineErrorShown
       /\ InvalidTimerFires => (hidden'["error"] /\ FormVisible')
      ]_vars

(***************************************************************************)
(* C22 amended: a malformed email shows the error element at once, leaves  *)
(* the form as it was and the flags unchanged; when its timer fires the    *)
(* error element is hidden and nothing else changes, so the form is        *)
(* visible then exactly if no other operation has hidden the form or the   *)
(* wrapper meanwhile.                                                      *)
(***************************************************************************)
C22_InlineError ==
    [][/\ InlineErrorShown
       /\ InvalidTimerFires
             => /\ hidden' = [hidden EXCEPT !["error"] = TRUE]
                /\ FormVisible' <=> FormVisible
      ]_vars

\* a malformed email was refused and its timer has fired: the error is
\* hidden again, the form is presented and no flag is set
C22_Witness ==
    /\ returned = [value |-> [success |-> FALSE, error |-> "Invalid email address"],
                   gets |-> 0, posts |-> 0]
    /\ timers = <<>>
    /\ hidden["error"] /\ FormVisible
    /\ ~SessionFlag /\ ~PermanentFlag

\* invocation i is awaiting a network response
InFlight(i) == inv[i].pc # "idle"

(***************************************************************************)
(* C23.  There is no in-flight guard: while an invocation awaits a network *)
(* response a further call can be made (as far as the bound on outstanding *)
(* work lets the model go), and a call made then with a well-formed email  *)
(* is neither refused nor held back: it issues its token GET in the same   *)
(* step, returns nothing yet, and leaves the other invocations' frames as  *)
(* they are.                                                               *)
(***************************************************************************)
C23_NoInFlightGuard ==
    /\ [][\A j \in Invocations, email \in Emails :
             (/\ ~Malformed(email)
              /\ \E i \in Invocations \ {j} : InFlight(i)
              /\ Subscribe(j, email))
                 => /\ inv'[j].pc = "awaitToken" /\ inv'[j].gets = 1
                    /\ returned' = returned
                    /\ \A i \in Invocations \ {j} : inv'[i] = inv[i]
         ]_vars
    /\ []((/\ \E i \in Invocations : InFlight(i)
           /\ \E j \in Invocations : ~InFlight(j)
           /\ Outstanding < MaxTimers)
             => ENABLED (\E j \in Invocations : Subscribe(j, <<"a", "@", "b">>)))

\* two invocations are in flight, each having issued its own GET and its own
\* POST: one awaits the answer to its POST, the other the error body
C23_Witness ==
    /\ inv[1].pc = "awaitJson" /\ inv[2].pc = "awaitPost"
    /\ inv[1].gets = 1 /\ inv[1].posts = 1
    /\ inv[2].gets = 1 /\ inv[2].posts = 1

(***************************************************************************)
(* C24.  Timers are never cancelled: within a page view a pending timer    *)
(* leaves the queue only by firing, in the order of arming, and whatever   *)
(* was rendered since it was armed a pending timer can fire; the error     *)
(* timer of an earlier attempt that fires while the success message of a   *)
(* later accepted attempt is displayed hides the error and un-hides the    *)
(* form, the success message staying displayed.                            *)
(***************************************************************************)
C24_TimersNeverCancelled ==
    /\ [][\/ LeavesPage
          \/ timers' = timers
          \/ \E t \in {InvalidTimer, SuccessTimer, ErrorTimer} : timers' = Append(timers, t)
          \/ TimerFire /\ timers' = Tail(timers)
         ]_vars
    /\ [][(ErrorTimerFires /\ SuccessPending)
             => /\ hidden'["error"] /\ ~hidden'["form"]
                /\ hidden'["sent"] = hidden["sent"]
                /\ hidden'["wrapper"] = hidden["wrapper"]
                /\ SuccessPending'
         ]_vars
    /\ [](timers # <<>> => ENABLED TimerFire)

\* the success message of an accepted attempt is displayed, its timer is the
\* only one pending, and the form is visible beside it: the error timer of
\* an earlier attempt has fired since the acceptance
C24_Witness ==
    /\ timers = << SuccessTimer >>
    /\ Visible("sent") /\ Visible("form")
    /\ hidden["error"]
    /\ returned.value = [success |-> TRUE,
                         message |-> "Success! Please check your email to confirm your subscription."]

\* nothing is outstanding: every invocation has returned, every timer fired
Quiescent == timers = <<>> /\ \A i \in Invocations : inv[i].pc = "idle"

\* the elements that are presented
VisibleElements == { e \in Elements : Visible(e) }

\* what is presented, once its timer has fired, in a page view of a fresh
\* browser whose only call returned result: nothing after an acceptance
\* (the wrapper is hidden), the page as loaded after a failure
AloneVisible(result) ==
    IF result.success THEN {} ELSE { "wrapper", "form", "dismiss" }

(***************************************************************************)
(* C25 as stated: when overlapping invocations have all returned and all   *)
(* timers have fired, what is presented and the flags are what the         *)
(* invocation that returned last would have produced alone.                *)
(***************************************************************************)
C25_Original ==
    (Quiescent /\ IsResult(returned.value))
        => /\ VisibleElements = AloneVisible(returned.value)
           /\ SessionFlag <=> returned.value.success
           /\ ~PermanentFlag

(***************************************************************************)
(* C25 amended: when overlapping invocations have all returned and all     *)
(* timers have fired, what is presented and the flags are what the         *)
(* invocation that returned last would have produced alone, except that an *)
(* acceptance is never undone: if any of them was accepted the session     *)
(* flag is set and the wrapper is hidden, also when a failed one returned  *)
(* last.                                                                   *)
(***************************************************************************)
C25_AcceptanceSticks ==
    (Quiescent /\ IsResult(returned.value))
        => /\ returned.value.success => SessionFlag
           /\ VisibleElements = IF SessionFlag THEN AloneVisible(AcceptedResult)
                                               ELSE AloneVisible(returned.value)
           /\ ~PermanentFlag

\* of two overlapping invocations one was accepted and the one that returned
\* last was rejected; all timers have fired
C25_Witness ==
    /\ Quiescent
    /\ SessionFlag
    /\ IsResult(returned.value) /\ ~returned.value.success
    /\ returned.posts = 1
    /\ VisibleElements = {}

\* a step of the script within the page view: of an invocation, of a timer,
\* or one of the three storage operations
ScriptStep ==
    \/ \E i \in Invocations : InvocationStep(i)
    \/ TimerFire
    \/ DismissNewsletter
    \/ ClearDismissal
    \/ ClearSessionSubscription

(***************************************************************************)
(* C26.  Within one page view the wrapper's hidden state is monotone: no   *)
(* step of an invocation (failed attempts included), no timer callback and *)
(* none of dismissNewsletter, clearDismissal and clearSessionSubscription  *)
(* shows a hidden wrapper again, whether or not storage works; within a    *)
(* page view the wrapper becomes hidden only by a dismissal or by the      *)
(* success timer.                                                          *)
(***************************************************************************)
C26_WrapperMonotone ==
    [][/\ (hidden["wrapper"] /\ ScriptStep) => hidden'["wrapper"]
       /\ (~hidden["wrapper"] /\ hidden'["wrapper"] /\ ScriptStep)
             => \/ DismissNewsletter
                \/ (TimerFire /\ Head(timers) = SuccessTimer)
      ]_vars

\* the wrapper is still hidden although both flags have been cleared and a
\* later attempt has failed and its timer has shown the form element again
C26_Witness ==
    /\ hidden["wrapper"] /\ ~hidden["form"]
    /\ ~SessionFlag /\ ~PermanentFlag
    /\ IsResult(returned.value) /\ ~returned.value.success
    /\ returned.gets = 1
    /\ Quiescent

=============================================================================
